---- MODULE Spec2Model ----
(***************************************************************************)
(* Model of usb4/src/main.rs: the bit-banged I2C master on two GPIO pads,  *)
(* the SMBus block transfers, the retimer register/command channel and the *)
(* firmware update sequence.                                               *)
(*                                                                         *)
(* A 32-bit pad configuration word is modelled as the set of its set bit   *)
(* positions (|= is union, &= ! is set difference), so that bits 30 and 31 *)
(* stay representable.  A 32-bit data word is modelled as two 16-bit limbs *)
(* <<hi, lo>>, its value being hi * 2^16 + lo.                             *)
(***************************************************************************)
EXTENDS Integers, Sequences, FiniteSets, TLC

(***************************************************************************)
(* Bounds of the model.                                                    *)
(***************************************************************************)
\* Longest firmware image, in bytes.
MaxImageLen == 132
\* Longest short payload handed to smbus_block_write.
MaxPayload == 2
\* How far beyond the 32-byte limit a payload handed to smbus_block_write goes.
MaxOver == 2
\* Largest length byte a device answers a block read with.
MaxCount == 5
\* Longest raw read asked of Rom::read, in bytes.
MaxRomLen == 2

(***************************************************************************)
(* Program constants.                                                      *)
(***************************************************************************)
IECS_CMD == 8
IECS_DATA == 9
MSG_OUT_RDATA == 18
\* Only 32 bytes can be processed at a time (smbus_block_write).
SMBUS_MAX == 32
\* let retries = 1000 (Retimer::command)
retries == 1000
\* while i < image.len() && j < 64 (flash_retimer)
CHUNK == 64
\* retimer_access(i2c, 0x40)
RETIMER_ADDRESS == 64
\* A Rust process that panics ends with status 101.
PANIC_STATUS == 101

Byte == 0..255
\* 1 << k, for a bit position of a byte
Shl1(k) == <<1, 2, 4, 8, 16, 32, 64, 128>>[k + 1]
\* (x & (1 << k)) >> k
Bit(x, k) == (x \div Shl1(k)) % 2
\* x | (1 << k)
BitOr(x, k) == IF Bit(x, k) = 1 THEN x ELSE x + Shl1(k)

(***************************************************************************)
(* Gpio: one pad configuration word, as the set of its set bits.           *)
(***************************************************************************)
PAD_MODE == {10, 11, 12}
RX_DIS == {9}
TX_DIS == {8}
RX == {1}
TX == {0}
\* GpioPadMode::Gpio = 0 << 10
GpioPadMode_Gpio == {}

get_mask(config, mask) == (config \cap mask) = mask

set_mask(config, mask, value) ==
    IF value THEN config \cup mask ELSE config \ mask

\* The mode is or-ed in without the field being cleared first.
set_pad_mode_uncleared(config, mode) == config \cup mode

set_pad_mode(config, mode) == (config \ PAD_MODE) \cup mode

enable_rx(config, value) == set_mask(config, RX_DIS, ~value)

enable_tx(config, value) == set_mask(config, TX_DIS, ~value)

set_tx(config, value) == set_mask(config, TX, value)

\* The word a volatile read returns while the pad is at `level`: the RX bit
\* is the pad's input level.
LiveConfig(config, level) == IF level = 1 THEN config \cup RX ELSE config \ RX

get_rx(config, level) == get_mask(LiveConfig(config, level), RX)

(***************************************************************************)
(* The two lines as the bus sees them.  A pad pulls its line low when its  *)
(* output is enabled with output level low; otherwise the pull-up holds    *)
(* the line high unless the device pulls it low.                           *)
(***************************************************************************)
Released(config) == get_mask(config, TX_DIS) \/ get_mask(config, TX)

\* Level of a line the master drives with `config` and the device with `dev`.
LineLevel(config, dev) == IF Released(config) THEN dev ELSE 0

(***************************************************************************)
(* I2CBitbang.  A bus is a record                                          *)
(*   scl, sda              the live configuration words of the two pads    *)
(*   scl_config, sda_config  the words captured by new()                   *)
(*   wire    what a protocol analyser sees of the master: "S" and "P" for  *)
(*           a start and a stop condition, and at each rising clock edge   *)
(*           the level the master puts on the data line ("1" = released)   *)
(*   fresh   a line changed and no delay has passed since                  *)
(*   hasty   number of line changes or samples made while fresh            *)
(*   last    the last line change no delay has followed yet: "none",       *)
(*           "scl low", "scl high", "sda low" or "sda high"                *)
(*   rush    number of samples made while fresh, and of line changes made  *)
(*           while fresh other than a change that follows a pull-down of   *)
(*           the clock, or the release of the clock that follows a release *)
(*           of the data line                                              *)
(***************************************************************************)
\* What the analyser logs when the clock goes from c0 to c1 and the data
\* line from d0 to d1 (TRUE = released).
Seen(c0, c1, d0, d1) ==
    IF ~c0 /\ c1 THEN <<IF d0 THEN "1" ELSE "0">>
    ELSE IF c0 /\ d0 /\ ~d1 THEN <<"S">>
    ELSE IF c0 /\ ~d0 /\ d1 THEN <<"P">>
    ELSE <<>>

\* What the change of the clock from c0 to c1, or else of the data line to
\* d1, is called (TRUE = released).
Kind(c0, c1, d1) ==
    IF c0 # c1 THEN (IF c1 THEN "scl high" ELSE "scl low")
    ELSE IF d1 THEN "sda high" ELSE "sda low"

\* A change of kind `kind` comes too soon after the change `last`.
Rushed(last, kind) ==
    last \in {"scl high", "sda low"} \/ (last = "sda high" /\ kind # "scl high")

\* The bus after its pads took the words scl/sda.
Moved(b, scl, sda, changed, seen) ==
    [b EXCEPT !.scl = scl, !.sda = sda,
              !.wire = @ \o seen,
              !.fresh = @ \/ changed,
              !.hasty = IF changed /\ b.fresh /\ @ < 2 THEN @ + 1 ELSE @,
              !.last = IF changed THEN Kind(Released(b.scl), Released(scl), Released(sda)) ELSE @,
              !.rush = IF changed
                          /\ Rushed(b.last, Kind(Released(b.scl), Released(scl), Released(sda)))
                          /\ @ < 2
                       THEN @ + 1 ELSE @]

\* One write of a pad's word, with the bookkeeping of what it did to the lines.
Observe(b, scl, sda) ==
    Moved(b, scl, sda,
          Released(b.scl) # Released(scl) \/ Released(b.sda) # Released(sda),
          Seen(Released(b.scl), Released(scl), Released(b.sda), Released(sda)))

\* Hard coded to 5 us, half of the period of a 100 kHz clock.
delay(b) == [b EXCEPT !.fresh = FALSE, !.last = "none"]

\* Pull SCL low
clr_scl(b) == Observe(b, enable_tx(b.scl, TRUE), b.sda)

\* Release SCL, bus pulls it high
set_scl(b) == Observe(b, enable_tx(b.scl, FALSE), b.sda)

\* Pull SDA low
clr_sda(b) == Observe(b, b.scl, enable_tx(b.sda, TRUE))

\* Release SDA, bus pulls it high
set_sda(b) == Observe(b, b.scl, enable_tx(b.sda, FALSE))

\* SDA goes high to low while SCL is high
start(b) == delay(clr_scl(delay(clr_sda(delay(set_scl(set_sda(b)))))))

\* The same without pulling the data line low first.
stop_no_pull(b) == delay(set_sda(delay(set_scl(b))))

\* SDA goes low to high while SCL is high
stop(b) == delay(set_sda(delay(set_scl(delay(clr_sda(b))))))

\* The clock is released as soon as the data line is set.
write_bit_no_setup(b, bit) ==
    clr_scl(delay(set_scl(IF bit THEN set_sda(b) ELSE clr_sda(b))))

\* SDA is set while SCL is pulsed
write_bit(b, bit) ==
    clr_scl(delay(set_scl(delay(IF bit THEN set_sda(b) ELSE clr_sda(b)))))

\* A sample of a line taken before the delay after its last change is hasty.
Sample(b) ==
    [b EXCEPT !.hasty = IF b.fresh /\ @ < 2 THEN @ + 1 ELSE @,
              !.rush = IF b.fresh /\ @ < 2 THEN @ + 1 ELSE @]

\* read_bit from `let bit = self.sda.get_rx()` on; `dev` is the level the
\* device drives.
read_bit_rx(b, dev) ==
    [bus |-> clr_scl(Sample(b)), bit |-> get_rx(b.sda, LineLevel(b.sda, dev))]

\* SDA is read while SCL is pulsed
read_bit(b, dev) == read_bit_rx(delay(set_scl(delay(set_sda(b)))), dev)

\* TLC evaluates an operator's argument where it is first used; Strict(b), in
\* the head of a loop, has the bus of the previous iteration evaluated before
\* the next one is entered, which keeps the evaluation of a long transfer flat.
Strict(b) == b.hasty >= 0

\* for i in (0..8).rev() { write_bit(byte & (1 << i) != 0) }, from i = k - 1 down
RECURSIVE write_bits(_, _, _)
\* The same loop without .rev(): least significant bit first.
write_bits_lsb_first(b, byte, k) ==
    IF k = 0 \/ ~Strict(b) THEN b
    ELSE write_bits(write_bit(b, Bit(byte, 8 - k) # 0), byte, k - 1)

write_bits(b, byte, k) ==
    IF k = 0 \/ ~Strict(b) THEN b
    ELSE write_bits(write_bit(b, Bit(byte, k - 1) # 0), byte, k - 1)

\* write_byte's result: let ack = !self.read_bit()
write_byte_ack(r) == [bus |-> r.bus, ack |-> ~r.bit]

\* Start condition is optionally sent, 8 bits are written,
\* 1 bit is read, low if ack, high if nack.  `dev` is the device's ack level.
write_byte(b, byte, st, dev) ==
    write_byte_ack(read_bit(write_bits(IF st THEN start(b) ELSE b, byte, 8), dev))

\* for i in (0..8).rev() { if read_bit() { byte |= 1 << i } }, from i = k - 1
\* down; levels[n] is the level the device drives during the n-th bit read.
\* read_bits_or is the body of the loop once the bit has been read.
RECURSIVE read_bits(_, _, _, _)
RECURSIVE read_bits_or(_, _, _, _)
read_bits_or(r, byte, k, levels) ==
    IF r.bit THEN read_bits(r.bus, BitOr(byte, k - 1), k - 1, levels)
    ELSE read_bits(r.bus, byte, k - 1, levels)

read_bits(b, byte, k, levels) ==
    IF k = 0 THEN [bus |-> b, byte |-> byte]
    ELSE read_bits_or(read_bit(b, levels[8 - k + 1]), byte, k, levels)

\* read_byte's end: self.write_bit(!ack); byte
read_byte_ack(r, ack) == [bus |-> write_bit(r.bus, ~ack), byte |-> r.byte]

\* 8 bits are read, 1 bit is written, low if ack, high if nack
read_byte(b, ack, levels) == read_byte_ack(read_bits(b, 0, 8, levels), ack)

\* The level a device drives in its k-th slot: a device that has nothing more
\* to say leaves the line to the pull-up.
Nth(levels, k) == IF k \in DOMAIN levels THEN levels[k] ELSE 1

\* The k-th byte a device sends: all ones once it has stopped driving the line.
NthByte(data, k) == IF k \in DOMAIN data THEN data[k] ELSE 255

\* The eight levels a device shifts out for `byte`, most significant bit first.
Levels(byte) == [k \in 1..8 |-> Bit(byte, 8 - k)]

\* for byte in bytes.iter() { if write_byte(*byte, false) { count += 1 } else { break } },
\* from the k-th byte on; write_payload_count is the body once the byte is out.
RECURSIVE write_payload(_, _, _, _, _)
RECURSIVE write_payload_count(_, _, _, _, _)
write_payload_count(r, bytes, k, count, acks) ==
    IF r.ack THEN write_payload(r.bus, bytes, k + 1, count + 1, acks)
    ELSE [bus |-> r.bus, count |-> count]

write_payload(b, bytes, k, count, acks) ==
    IF k > Len(bytes) THEN [bus |-> b, count |-> count]
    ELSE write_payload_count(write_byte(b, bytes[k], FALSE, Nth(acks, 3 + k)),
                             bytes, k, count, acks)

\* smbus_block_write, inside out: each step takes what the write_byte before
\* it returned.
block_write_len(r, bytes, acks) ==
    IF r.ack THEN write_payload(r.bus, bytes, 1, 0, acks)
    ELSE [bus |-> r.bus, count |-> 0]

block_write_command(r, bytes, acks) ==
    IF r.ack
    THEN block_write_len(write_byte(r.bus, Len(bytes) % 256, FALSE, Nth(acks, 3)),
                         bytes, acks)
    ELSE [bus |-> r.bus, count |-> 0]

block_write_address(r, command, bytes, acks) ==
    IF r.ack
    THEN block_write_command(write_byte(r.bus, command, FALSE, Nth(acks, 2)),
                             bytes, acks)
    ELSE [bus |-> r.bus, count |-> 0]

\* The transfer left open: no stop condition.
block_write_no_stop(r) == [bus |-> r.bus, count |-> r.count]

block_write_stop(r) == [bus |-> stop(r.bus), count |-> r.count]

\* smbus_block_write without the check of the payload's length.
smbus_block_write_unchecked(b, address, command, bytes, acks) ==
    block_write_stop(
        block_write_address(
            write_byte(b, (address * 2) % 256, TRUE, Nth(acks, 1)),
            command, bytes, acks))

\* Start condition, address with read bit low, command, byte count, bytes,
\* stop condition.  acks[k] is the level the device drives in the ack slot
\* of the k-th byte on the wire (0 = acknowledged).
smbus_block_write(b, address, command, bytes, acks) ==
    IF Len(bytes) > SMBUS_MAX THEN [bus |-> b, count |-> 0]
    ELSE block_write_stop(
             block_write_address(
                 write_byte(b, (address * 2) % 256, TRUE, Nth(acks, 1)),
                 command, bytes, acks))

\* for i in 0..count { let ack = i + 1 != count; bytes.push(read_byte(ack)) },
\* from i = k on; data[n] is the n-th byte the device sends.
RECURSIVE read_payload(_, _, _, _, _)
RECURSIVE read_payload_push(_, _, _, _, _)
read_payload_push(r, bytes, k, count, data) ==
    read_payload(r.bus, Append(bytes, r.byte), k + 1, count, data)

\* The same loop acknowledging every byte, the last one too.
read_payload_ack_all(b, bytes, k, count, data) ==
    IF k >= count \/ ~Strict(b) THEN [bus |-> b, bytes |-> bytes]
    ELSE read_payload_push(read_byte(b, TRUE, Levels(NthByte(data, k + 1))),
                           bytes, k, count, data)

read_payload(b, bytes, k, count, data) ==
    IF k >= count \/ ~Strict(b) THEN [bus |-> b, bytes |-> bytes]
    ELSE read_payload_push(read_byte(b, (k + 1) # count, Levels(NthByte(data, k + 1))),
                           bytes, k, count, data)

\* smbus_block_read, inside out; dev.acks are the device's three ack levels,
\* dev.count the length byte it sends and dev.data the bytes after it.
block_read_count(r, dev) == read_payload(r.bus, <<>>, 0, r.byte, dev.data)

block_read_repeat(r, dev) ==
    IF r.ack THEN block_read_count(read_byte(r.bus, TRUE, Levels(dev.count)), dev)
    ELSE [bus |-> r.bus, bytes |-> <<>>]

block_read_command(r, address, dev) ==
    IF r.ack
    THEN block_read_repeat(
             write_byte(r.bus, ((address * 2) % 256) + 1, TRUE, Nth(dev.acks, 3)), dev)
    ELSE [bus |-> r.bus, bytes |-> <<>>]

block_read_address(r, address, command, dev) ==
    IF r.ack
    THEN block_read_command(write_byte(r.bus, command, FALSE, Nth(dev.acks, 2)),
                            address, dev)
    ELSE [bus |-> r.bus, bytes |-> <<>>]

block_read_stop(r) == [bus |-> stop(r.bus), bytes |-> r.bytes]

\* Start condition, address with read bit low, command, repeated start,
\* address with read bit high, byte count is read, bytes are read, stop
\* condition.
smbus_block_read(b, address, command, dev) ==
    block_read_stop(
        block_read_address(
            write_byte(b, (address * 2) % 256, TRUE, Nth(dev.acks, 1)),
            address, command, dev))

(***************************************************************************)
(* Retimer: 4-byte registers and the command register.  A 32-bit word is   *)
(* the pair <<hi, lo>> of its 16-bit halves.                               *)
(***************************************************************************)
U32(n) == <<n \div 65536, n % 65536>>

CMD_AFRR == U32(1381123649)
CMD_AUTH == U32(1213486401)
CMD_BLKW == U32(1464552514)
CMD_BOPS == U32(1397772098)
CMD_PCYC == U32(1129923408)

\* bytes[0] as u32 | (bytes[1] as u32) << 8 | (bytes[2] as u32) << 16 | (bytes[3] as u32) << 24
FromLeBytes(bytes) == <<bytes[3] + bytes[4] * 256, bytes[1] + bytes[2] * 256>>

\* The four bytes of data, most significant first.
ToBeBytes(data) ==
    <<(data[1] \div 256) % 256, data[1] % 256, (data[2] \div 256) % 256, data[2] % 256>>

\* [data as u8, (data >> 8) as u8, (data >> 16) as u8, (data >> 24) as u8]
ToLeBytes(data) ==
    <<data[2] % 256, (data[2] \div 256) % 256, data[1] % 256, (data[1] \div 256) % 256>>

\* Retimer::read, once the block read has returned.
Retimer_read_bytes(r) ==
    IF Len(r.bytes) = 4
    THEN [bus |-> r.bus, ok |-> TRUE, value |-> FromLeBytes(r.bytes), len |-> 4]
    ELSE [bus |-> r.bus, ok |-> FALSE, value |-> <<0, 0>>, len |-> Len(r.bytes)]

Retimer_read(b, address, register, dev) ==
    Retimer_read_bytes(smbus_block_read(b, address, register, dev))

\* Retimer::write, once the block write has returned.
Retimer_write_count(r) == [bus |-> r.bus, ok |-> (r.count = 4), count |-> r.count]

Retimer_write(b, address, register, data, acks) ==
    Retimer_write_count(smbus_block_write(b, address, register, ToLeBytes(data), acks))

(***************************************************************************)
(* Rom: the raw read at a 16-bit offset.  dev.acks are the device's four   *)
(* ack levels and dev.data the bytes it sends.                             *)
(***************************************************************************)
\* Rom::read, inside out: each step takes what the write_byte before it
\* returned.
rom_read_repeat(r, length, dev) ==
    IF r.ack THEN read_payload(r.bus, <<>>, 0, length, dev.data)
    ELSE [bus |-> r.bus, bytes |-> <<>>]

rom_read_low(r, address, length, dev) ==
    IF r.ack
    THEN rom_read_repeat(
             write_byte(r.bus, ((address * 2) % 256) + 1, TRUE, Nth(dev.acks, 4)),
             length, dev)
    ELSE [bus |-> r.bus, bytes |-> <<>>]

rom_read_high(r, address, offset, length, dev) ==
    IF r.ack
    THEN rom_read_low(write_byte(r.bus, offset % 256, FALSE, Nth(dev.acks, 3)),
                      address, length, dev)
    ELSE [bus |-> r.bus, bytes |-> <<>>]

rom_read_address(r, address, offset, length, dev) ==
    IF r.ack
    THEN rom_read_high(write_byte(r.bus, (offset \div 256) % 256, FALSE, Nth(dev.acks, 2)),
                       address, offset, length, dev)
    ELSE [bus |-> r.bus, bytes |-> <<>>]

rom_read_stop(r) == [bus |-> stop(r.bus), bytes |-> r.bytes]

\* Start condition, address with read bit low, offset high byte, offset low
\* byte, repeated start, address with read bit high, `length` bytes are
\* read, stop condition.
Rom_read(b, address, offset, length, dev) ==
    rom_read_stop(
        rom_read_address(
            write_byte(b, (address * 2) % 256, TRUE, Nth(dev.acks, 1)),
            address, offset, length, dev))

\* I2CBitbang::new: capture each pad's word, then input enabled, output
\* disabled, output level low, pad mode GPIO.
I2CBitbang_new(scl, sda) ==
    [scl |-> set_pad_mode(set_tx(enable_tx(enable_rx(scl, TRUE), FALSE), FALSE), GpioPadMode_Gpio),
     scl_config |-> scl,
     sda |-> set_pad_mode(set_tx(enable_tx(enable_rx(sda, TRUE), FALSE), FALSE), GpioPadMode_Gpio),
     sda_config |-> sda,
     wire |-> <<>>, fresh |-> FALSE, hasty |-> 0, last |-> "none", rush |-> 0]

\* Only the clock pad gets its captured word back.
I2CBitbang_drop_scl_only(b) == [b EXCEPT !.scl = b.scl_config]

\* impl Drop for I2CBitbang: both pads get their captured word back.
I2CBitbang_drop(b) == [b EXCEPT !.scl = b.scl_config, !.sda = b.sda_config]

(***************************************************************************)
(* The firmware update: main, force_power, i2c_enable, i2c_access,         *)
(* retimer_access and flash_retimer, one action per step.                  *)
(*   pc           where the program is                                     *)
(*   gpio         the configuration words of the four pads used            *)
(*   i2c          the I2CBitbang object: its life ("none", "alive",        *)
(*                "dropped") and the words it captured                     *)
(*   image, i, j  the image and the cursors of flash_retimer               *)
(*   cmd, tries   the command Retimer::command runs and its loop index     *)
(*   ret          what the last Retimer call returned                      *)
(*   result       how flash_retimer ended: "none", "Ok", "Err", "panic"    *)
(*   exit_status  the status the process ended with, -1 while it runs      *)
(* and, for the record of what went over the bus,                          *)
(*   before       the pad words when I2CBitbang::new was entered           *)
(*   cmds         the opcodes written to the command register, in order    *)
(*   chunks       the bytes staged before each write-block command         *)
(*   sent         words accepted by the staging register since the last    *)
(*                command                                                  *)
(*   reads, echoes  reads of the command register made by the current      *)
(*                command, and how many of them returned its opcode        *)
(*   failed       a register access or a command has returned an error     *)
(*   why          what ended the update early: "none", "gpio", "file",     *)
(*                "read", "write", "command" or "index"                    *)
(*   late         register accesses started after one had failed           *)
(*   log          the pin changes, the life of the bus, the identification *)
(*                reads, the writes of the data registers and the poll     *)
(*                reads that failed, in the order they were made           *)
(* The last two variables belong to the bus-level specification below.     *)
(***************************************************************************)
VARIABLES pc, gpio, i2c, image, i, j, cmd, tries, ret, result, exit_status,
          before, cmds, chunks, sent, reads, echoes, failed, why, late, log,
          bus, op

updater == <<pc, gpio, i2c, image, i, j, cmd, tries, ret, result, exit_status,
             before, cmds, chunks, sent, reads, echoes, failed, why, late, log>>

probe == <<bus, op>>

vars == <<updater, probe>>

\* The words the four pads hold when the program starts.
InitGpio ==
    {[scl |-> {30, 10, 9, 8}, sda |-> {31, 26, 11, 10, 1, 0},
      rom_i2c_en |-> {30, 9, 8}, force_power |-> {}],
     [scl |-> {31, 12, 0}, sda |-> {30, 10, 9, 8},
      rom_i2c_en |-> {31, 9, 0}, force_power |-> {31, 9}]}

\* The image file: a fixed byte pattern, cut to the file's length.
ImageByte(k) == (k * 73 + 29) % 256
Image(len) == [k \in 1..len |-> ImageByte(k - 1)]
ImageLens == {len \in 0..MaxImageLen : len % CHUNK \in {0, 3, 4, 60}}

\* The four bytes taken most significant first.
WordAt_reversed(img, at) == FromLeBytes(<<img[at + 4], img[at + 3], img[at + 2], img[at + 1]>>)

\* image[i] as u32 | (image[i + 1] as u32) << 8 | ...; sequences count from 1.
WordAt(img, at) == FromLeBytes(<<img[at + 1], img[at + 2], img[at + 3], img[at + 4]>>)

Cmds == {CMD_BOPS, CMD_BLKW, CMD_AUTH, CMD_PCYC}

(***************************************************************************)
(* What the device may answer.  A block read is answered with three ack    *)
(* levels, a length byte and data bytes; a block write with the ack level  *)
(* of each byte it is sent.                                                *)
(***************************************************************************)
ReadAnswer(bytes) == [acks |-> <<0, 0, 0>>, count |-> Len(bytes), data |-> bytes]
NoAnswer == [acks |-> <<1>>, count |-> 0, data |-> <<>>]
ErrorStatus == <<1, 0, 0, 128>>
PollAnswers(c) ==
    {ReadAnswer(ToLeBytes(c)), ReadAnswer(<<0, 0, 0, 0>>), ReadAnswer(ErrorStatus),
     ReadAnswer(<<0, 0, 0>>), NoAnswer}
IdAnswers ==
    {ReadAnswer(<<135, 128, 0, 0>>), ReadAnswer(<<0, 0, 0, 0>>),
     ReadAnswer(<<135, 128, 0, 0, 0>>), NoAnswer}
ReadAnswers == IdAnswers \cup UNION {PollAnswers(c) : c \in Cmds}
WriteAcks == {<<0, 0, 0, 0, 0, 0, 0>>, <<0, 0, 0, 0, 0, 1>>, <<1>>}

\* The register writes flash_retimer and Retimer::command make.
WriteCalls ==
    {<<IECS_DATA, <<0, 0>>>>}
    \cup {<<IECS_CMD, c>> : c \in Cmds}
    \cup {<<MSG_OUT_RDATA, WordAt(Image(MaxImageLen), 4 * k)>> : k \in 0..((MaxImageLen \div 4) - 1)}

\* The bus as I2CBitbang::new leaves it, for each starting state of the pads.
Buses == {I2CBitbang_new(g.scl, g.sda) : g \in InitGpio}

\* Every register access of the update is one block transfer on the bus.
\* The transfers are evaluated once, for each bus and each device answer.
ReadTbl ==
    [b \in Buses, r \in {0, 1, IECS_CMD}, dev \in ReadAnswers |->
        Retimer_read(b, RETIMER_ADDRESS, r, dev)]
WriteTbl ==
    [b \in Buses, call \in WriteCalls, acks \in WriteAcks |->
        Retimer_write(b, RETIMER_ADDRESS, call[1], call[2], acks)]

\* The bus of the live I2CBitbang object.
TheBus ==
    [scl |-> gpio.scl, scl_config |-> i2c.scl_config,
     sda |-> gpio.sda, sda_config |-> i2c.sda_config,
     wire |-> <<>>, fresh |-> FALSE, hasty |-> 0, last |-> "none", rush |-> 0]

\* The pads after a transfer that left the bus as `b`.
Pads(b) == [gpio EXCEPT !.scl = b.scl, !.sda = b.sda]

\* The update's variables at the start of the program named `at`.
InitUpdater(at) ==
    /\ pc = at
    /\ gpio \in InitGpio
    /\ i2c = [life |-> "none", scl_config |-> {}, sda_config |-> {}]
    /\ image \in {Image(len) : len \in ImageLens}
    /\ i = 0 /\ j = 0
    /\ cmd = <<0, 0>> /\ tries = 0
    /\ ret = [res |-> "none", status |-> <<0, 0>>]
    /\ result = "none"
    /\ exit_status = -1
    /\ before = gpio
    /\ cmds = <<>> /\ chunks = <<>> /\ sent = 0
    /\ reads = 0 /\ echoes = 0
    /\ failed = FALSE /\ why = "none" /\ late = 0
    /\ log = <<>>

Init ==
    /\ InitUpdater("main")
    /\ bus = I2CBitbang_new({}, {})
    /\ op = [name |-> "none"]

\* An entry of the log: a register access with its outcome, or with Pin a
\* step that involves no register of the retimer.
Access(ev, reg, data, ok) == [ev |-> ev, reg |-> reg, data |-> data, ok |-> ok]

Pin(ev) == Access(ev, 0, <<0, 0>>, TRUE)

\* The count of accesses started after a failure, after one more access.
Started == IF failed THEN late + 1 ELSE late

None == [res |-> "none", status |-> <<0, 0>>]

LengthMismatch == [res |-> "LengthMismatch", status |-> <<0, 0>>]

\* Any status that differs from cmd ends the command well.
PollResult_ok(status) == [res |-> "Success", status |-> status]

\* Retimer::command: what a status that differs from cmd makes it return.
PollResult(status) ==
    [res |-> IF status = <<0, 0>> THEN "Success" ELSE "DeviceError", status |-> status]

\* main: the scheduler priority and the sideband are set up before any pad
\* is touched; either failing ends the process with status 1.
Main ==
    /\ pc = "main"
    /\ \E outcome \in {"ok", "sched", "sideband"} :
          IF outcome = "ok"
          THEN pc' = "force_power" /\ exit_status' = exit_status
          ELSE pc' = "exit" /\ exit_status' = 1
    /\ UNCHANGED <<gpio, i2c, image, i, j, cmd, tries, ret, result, before,
                   cmds, chunks, sent, reads, echoes, failed, why, late, log, probe>>

\* Gpio::new(...).unwrap() on a pad the sideband does not know: the panic
\* unwinds out of the process, past the statements that lower the pins.
Unfound ==
    /\ pc' = "exit" /\ exit_status' = PANIC_STATUS
    /\ result' = "panic" /\ why' = "gpio"
    /\ UNCHANGED <<gpio, i2c, before, log>>

\* force_power, up to its call of i2c_enable.
ForcePowerOn ==
    /\ pc = "force_power"
    /\ \E found \in BOOLEAN :
          IF found
          THEN /\ gpio' = [gpio EXCEPT !.force_power = set_tx(@, TRUE)]
               /\ log' = Append(log, Pin("force_power high"))
               /\ pc' = "i2c_enable"
               /\ UNCHANGED <<i2c, before, result, exit_status, why>>
          ELSE Unfound
    /\ UNCHANGED <<image, i, j, cmd, tries, ret, cmds, chunks, sent, reads,
                   echoes, failed, late, probe>>

\* i2c_enable, up to its call of i2c_access.
I2cEnableOn ==
    /\ pc = "i2c_enable"
    /\ \E found \in BOOLEAN :
          IF found
          THEN /\ gpio' = [gpio EXCEPT !.rom_i2c_en = set_tx(@, TRUE)]
               /\ log' = Append(log, Pin("rom_i2c_en high"))
               /\ pc' = "i2c_access"
               /\ UNCHANGED <<i2c, before, result, exit_status, why>>
          ELSE Unfound
    /\ UNCHANGED <<image, i, j, cmd, tries, ret, cmds, chunks, sent, reads,
                   echoes, failed, late, probe>>

\* The I2CBitbang object made of the bus `b`.
Captured(b) == [life |-> "alive", scl_config |-> b.scl_config, sda_config |-> b.sda_config]

\* i2c_access: the two pads of I2C1 become the bus handed to retimer_access.
I2cAccess ==
    /\ pc = "i2c_access"
    /\ \E found \in BOOLEAN :
          IF found
          THEN /\ before' = gpio
               /\ i2c' = Captured(I2CBitbang_new(gpio.scl, gpio.sda))
               /\ gpio' = Pads(I2CBitbang_new(gpio.scl, gpio.sda))
               /\ log' = Append(log, Pin("new"))
               /\ pc' = "vendor"
               /\ UNCHANGED <<result, exit_status, why>>
          ELSE Unfound
    /\ UNCHANGED <<image, i, j, cmd, tries, ret, cmds, chunks, sent, reads,
                   echoes, failed, late, probe>>

\* retimer.read(reg) with its result dropped: the update goes on after a
\* read that failed.
ReadId_unchecked(at, register, next) ==
    /\ pc = at
    /\ \E dev \in IdAnswers :
          /\ gpio' = Pads(ReadTbl[TheBus, register, dev].bus)
          /\ log' = Append(log, Access("read", register, <<0, ReadTbl[TheBus, register, dev].len>>,
                                       ReadTbl[TheBus, register, dev].ok))
          /\ pc' = next /\ UNCHANGED <<result, why, failed>>
    /\ late' = Started
    /\ UNCHANGED <<i2c, image, i, j, cmd, tries, ret, exit_status, before,
                   cmds, chunks, sent, reads, echoes, probe>>

\* retimer.read(reg)? at the head of flash_retimer.
ReadId(at, register, next) ==
    /\ pc = at
    /\ \E dev \in IdAnswers :
          /\ gpio' = Pads(ReadTbl[TheBus, register, dev].bus)
          /\ log' = Append(log, Access("read", register, <<0, ReadTbl[TheBus, register, dev].len>>,
                                       ReadTbl[TheBus, register, dev].ok))
          /\ IF ReadTbl[TheBus, register, dev].ok
             THEN pc' = next /\ UNCHANGED <<result, why, failed>>
             ELSE pc' = "drop" /\ result' = "Err" /\ why' = "read" /\ failed' = TRUE
    /\ late' = Started
    /\ UNCHANGED <<i2c, image, i, j, cmd, tries, ret, exit_status, before,
                   cmds, chunks, sent, reads, echoes, probe>>

ReadVendor == ReadId("vendor", 0, "device")

ReadDevice == ReadId("device", 1, "load")

\* fs::read(...).unwrap()
LoadImage ==
    /\ pc = "load"
    /\ \E present \in BOOLEAN :
          IF present
          THEN pc' = "offset" /\ UNCHANGED <<result, why>>
          ELSE pc' = "drop" /\ result' = "panic" /\ why' = "file"
    /\ UNCHANGED <<gpio, i2c, image, i, j, cmd, tries, ret, exit_status,
                   before, cmds, chunks, sent, reads, echoes, failed, late, log, probe>>

\* retimer.write(IECS_DATA, 0).unwrap(), then the call of command(CMD_BOPS).
WriteOffset ==
    /\ pc = "offset"
    /\ \E acks \in WriteAcks :
          /\ gpio' = Pads(WriteTbl[TheBus, <<IECS_DATA, <<0, 0>>>>, acks].bus)
          /\ log' = Append(log, Access("write", IECS_DATA, <<0, 0>>,
                                       WriteTbl[TheBus, <<IECS_DATA, <<0, 0>>>>, acks].ok))
          /\ IF WriteTbl[TheBus, <<IECS_DATA, <<0, 0>>>>, acks].ok
             THEN /\ pc' = "cmd_write" /\ cmd' = CMD_BOPS
                  /\ UNCHANGED <<result, why, failed>>
             ELSE /\ pc' = "drop" /\ result' = "panic" /\ why' = "write"
                  /\ failed' = TRUE /\ cmd' = cmd
    /\ late' = Started
    /\ UNCHANGED <<i2c, image, i, j, tries, ret, exit_status, before,
                   cmds, chunks, sent, reads, echoes, probe>>

\* Retimer::command: self.write(IECS_CMD, cmd)?
CommandWrite ==
    /\ pc = "cmd_write"
    /\ \E acks \in WriteAcks :
          /\ gpio' = Pads(WriteTbl[TheBus, <<IECS_CMD, cmd>>, acks].bus)
          /\ IF WriteTbl[TheBus, <<IECS_CMD, cmd>>, acks].ok
             THEN pc' = "cmd_poll" /\ ret' = None /\ failed' = failed
             ELSE pc' = "cmd_ret" /\ ret' = LengthMismatch /\ failed' = TRUE
    /\ cmds' = Append(cmds, cmd)
    /\ chunks' = IF cmd = CMD_BLKW THEN Append(chunks, sent) ELSE chunks
    /\ sent' = 0
    /\ tries' = 0 /\ reads' = 0 /\ echoes' = 0
    /\ late' = Started
    /\ UNCHANGED <<i2c, image, i, j, cmd, result, exit_status, before, why, log, probe>>

\* The loop body without the '?': a read of the wrong length counts as a
\* read of 0.
Polled_any_length(r) ==
    IF ~r.ok
    THEN /\ ret' = PollResult(<<0, 0>>) /\ pc' = "cmd_ret" /\ failed' = failed
         /\ log' = Append(log, Access("poll", IECS_CMD, <<0, r.len>>, FALSE))
         /\ UNCHANGED <<tries, echoes>>
    ELSE IF r.value = cmd
    THEN /\ tries' = tries + 1 /\ echoes' = echoes + 1
         /\ UNCHANGED <<ret, pc, failed, log>>
    ELSE /\ ret' = PollResult(r.value) /\ pc' = "cmd_ret"
         /\ failed' = (failed \/ r.value # <<0, 0>>)
         /\ UNCHANGED <<tries, echoes, log>>

\* The loop body of a `loop` in place of `for _ in 0..retries`: an echo is
\* not counted.
Polled_uncounted(r) ==
    IF ~r.ok
    THEN /\ ret' = LengthMismatch /\ pc' = "cmd_ret" /\ failed' = TRUE
         /\ log' = Append(log, Access("poll", IECS_CMD, <<0, r.len>>, FALSE))
         /\ UNCHANGED <<tries, echoes>>
    ELSE IF r.value = cmd
    THEN /\ echoes' = echoes + 1
         /\ UNCHANGED <<tries, ret, pc, failed, log>>
    ELSE /\ ret' = PollResult(r.value) /\ pc' = "cmd_ret"
         /\ failed' = (failed \/ r.value # <<0, 0>>)
         /\ UNCHANGED <<tries, echoes, log>>

\* Retimer::command: the loop body once self.read(IECS_CMD) has returned r.
Polled(r) ==
    IF ~r.ok
    THEN /\ ret' = LengthMismatch /\ pc' = "cmd_ret" /\ failed' = TRUE
         /\ log' = Append(log, Access("poll", IECS_CMD, <<0, r.len>>, FALSE))
         /\ UNCHANGED <<tries, echoes>>
    ELSE IF r.value = cmd
    THEN /\ tries' = tries + 1 /\ echoes' = echoes + 1
         /\ UNCHANGED <<ret, pc, failed, log>>
    ELSE /\ ret' = PollResult(r.value) /\ pc' = "cmd_ret"
         /\ failed' = (failed \/ r.value # <<0, 0>>)
         /\ UNCHANGED <<tries, echoes, log>>

\* Retimer::command: one turn of the polling loop, or the fall out of it.
CommandPoll ==
    /\ pc = "cmd_poll"
    /\ IF tries < retries
       THEN \E dev \in PollAnswers(cmd) :
               /\ gpio' = Pads(ReadTbl[TheBus, IECS_CMD, dev].bus)
               /\ reads' = reads + 1
               /\ late' = Started
               /\ Polled(ReadTbl[TheBus, IECS_CMD, dev])
       ELSE /\ ret' = [res |-> "Timeout", status |-> cmd]
            /\ pc' = "cmd_ret" /\ failed' = TRUE
            /\ UNCHANGED <<gpio, tries, reads, echoes, late, log>>
    /\ UNCHANGED <<i2c, image, i, j, cmd, result, exit_status, before,
                   cmds, chunks, sent, why, probe>>

\* Every status counts as Ok(()).
Fatal_never(r) == FALSE

\* flash_retimer: match status { Err(why) => panic!(...), Ok(()) => {} }
Fatal(r) == r.res # "Success"

\* flash_retimer: the match on what command returned, and the step after it.
CommandReturn ==
    /\ pc = "cmd_ret"
    /\ IF Fatal(ret)
       THEN /\ pc' = "drop" /\ result' = "panic" /\ why' = "command"
            /\ UNCHANGED <<i, cmd, ret>>
       ELSE /\ why' = why /\ ret' = None
            /\ CASE cmd = CMD_BOPS ->
                      pc' = "outer" /\ i' = 0 /\ cmd' = cmd /\ result' = result
                 [] cmd = CMD_BLKW ->
                      pc' = "outer" /\ i' = i /\ cmd' = cmd /\ result' = result
                 [] cmd = CMD_AUTH ->
                      pc' = "cmd_write" /\ i' = i /\ cmd' = CMD_PCYC /\ result' = result
                 [] OTHER ->
                      pc' = "drop" /\ i' = i /\ cmd' = cmd /\ result' = "Ok"
    /\ tries' = 0 /\ reads' = 0 /\ echoes' = 0
    /\ UNCHANGED <<gpio, i2c, image, j, exit_status, before, cmds, chunks,
                   sent, failed, late, log, probe>>

\* flash_retimer: while i < image.len(), and the step after the loop.
Outer ==
    /\ pc = "outer"
    /\ IF i < Len(image)
       THEN pc' = "inner" /\ j' = 0 /\ cmd' = cmd
       ELSE pc' = "cmd_write" /\ j' = j /\ cmd' = CMD_AUTH
    /\ UNCHANGED <<gpio, i2c, image, i, tries, ret, result, exit_status, before,
                   cmds, chunks, sent, reads, echoes, failed, why, late, log, probe>>

\* while i < image.len()
InnerLoop_unbounded == i < Len(image)

\* while i < image.len() && j < 64
InnerLoop == i < Len(image) /\ j < CHUNK

\* flash_retimer: while i < image.len() && j < 64, one word of the chunk;
\* image[i + 3] must exist.  After the loop, the call of command(CMD_BLKW).
Inner ==
    /\ pc = "inner"
    /\ IF InnerLoop
       THEN IF i + 3 >= Len(image)
            THEN /\ pc' = "drop" /\ result' = "panic" /\ why' = "index"
                 /\ UNCHANGED <<gpio, i, j, cmd, sent, failed, late, log>>
            ELSE \E acks \in WriteAcks :
                    /\ gpio' = Pads(WriteTbl[TheBus, <<MSG_OUT_RDATA, WordAt(image, i)>>, acks].bus)
                    /\ late' = Started
                    /\ cmd' = cmd
                    /\ log' = Append(log, Access("write", MSG_OUT_RDATA, WordAt(image, i),
                                                 WriteTbl[TheBus, <<MSG_OUT_RDATA, WordAt(image, i)>>, acks].ok))
                    /\ IF WriteTbl[TheBus, <<MSG_OUT_RDATA, WordAt(image, i)>>, acks].ok
                       THEN /\ i' = i + 4 /\ j' = j + 4 /\ sent' = sent + 4
                            /\ UNCHANGED <<pc, result, why, failed>>
                       ELSE /\ pc' = "drop" /\ result' = "panic" /\ why' = "write"
                            /\ failed' = TRUE
                            /\ UNCHANGED <<i, j, sent>>
       ELSE /\ pc' = "cmd_write" /\ cmd' = CMD_BLKW
            /\ UNCHANGED <<gpio, i, j, result, sent, failed, why, late, log>>
    /\ UNCHANGED <<i2c, image, tries, ret, exit_status, before, cmds, chunks,
                   reads, echoes, probe>>

\* The Retimer, and the I2CBitbang in it, goes out of scope: at the end of
\* retimer_access, or while a panic unwinds through it.
Drop ==
    /\ pc = "drop"
    /\ gpio' = Pads(I2CBitbang_drop(TheBus))
    /\ i2c' = [i2c EXCEPT !.life = "dropped"]
    /\ log' = Append(log, Pin("drop"))
    /\ IF result = "panic"
       THEN pc' = "exit" /\ exit_status' = PANIC_STATUS
       ELSE pc' = "en_low" /\ exit_status' = exit_status
    /\ UNCHANGED <<image, i, j, cmd, tries, ret, result, before, cmds, chunks,
                   sent, reads, echoes, failed, why, late, probe>>

\* i2c_enable, after i2c_access returned.
I2cEnableOff ==
    /\ pc = "en_low"
    /\ gpio' = [gpio EXCEPT !.rom_i2c_en = set_tx(@, FALSE)]
    /\ log' = Append(log, Pin("rom_i2c_en low"))
    /\ pc' = "fp_low"
    /\ UNCHANGED <<i2c, image, i, j, cmd, tries, ret, result, exit_status, before,
                   cmds, chunks, sent, reads, echoes, failed, why, late, probe>>

\* force_power, after i2c_enable returned, and process::exit in main.
ForcePowerOff ==
    /\ pc = "fp_low"
    /\ gpio' = [gpio EXCEPT !.force_power = set_tx(@, FALSE)]
    /\ log' = Append(log, Pin("force_power low"))
    /\ pc' = "exit"
    /\ exit_status' = IF result = "Ok" THEN 0 ELSE 1
    /\ UNCHANGED <<i2c, image, i, j, cmd, tries, ret, result, before, cmds,
                   chunks, sent, reads, echoes, failed, why, late, probe>>

Next ==
    \/ Main \/ ForcePowerOn \/ I2cEnableOn \/ I2cAccess
    \/ ReadVendor \/ ReadDevice \/ LoadImage \/ WriteOffset
    \/ CommandWrite \/ CommandPoll \/ CommandReturn
    \/ Outer \/ Inner
    \/ Drop \/ I2cEnableOff \/ ForcePowerOff

Spec == Init /\ [][Next]_vars

\* The program is one thread whose every step returns: a bus transfer is a
\* bounded number of bits and half-period sleeps, so the step that is enabled
\* is eventually taken.
SpecLive == Spec /\ WF_vars(Next)

(***************************************************************************)
(* The bus on its own: the operations of I2CBitbang and of Retimer, each   *)
(* applied to a bus fresh from I2CBitbang::new against a device whose      *)
(* answers are chosen freely.                                              *)
(*   bus   the bus; bus.wire holds what the last operation put on the      *)
(*         lines                                                           *)
(*   op    the last operation: its name, its arguments, the device's       *)
(*         answers and what it returned                                    *)
(***************************************************************************)
Addresses == {RETIMER_ADDRESS, 200}

Registers == {IECS_CMD, MSG_OUT_RDATA}

\* A device that acknowledges `upto` bytes and not the next one.
AckUpTo(upto) == [k \in 1..upto |-> 0]

PayloadBytes == {0, 165, 255}

Payloads ==
    UNION {[1..len -> PayloadBytes] : len \in 0..MaxPayload}
    \cup {Image(len) : len \in SMBUS_MAX..(SMBUS_MAX + MaxOver)}

WriteDevices == {AckUpTo(upto) : upto \in 0..(3 + MaxPayload)} \cup {AckUpTo(3 + SMBUS_MAX)}

ReadData == {<<>>, ErrorStatus, <<165, 90, 255, 0, 17>>}

ReadDevices ==
    {[acks |-> AckUpTo(upto), count |-> count, data |-> data] :
        upto \in 0..3, count \in 0..MaxCount, data \in ReadData}

Words == {<<0, 0>>, CMD_BOPS, <<65535, 65535>>, <<32768, 1>>, <<4660, 22136>>}

\* The bus with an empty log.
Quiet(b) == [b EXCEPT !.wire = <<>>]

\* //rom_access(i2c, 0x50)
ROM_ADDRESS == 80

RomOffsets == {0, 258, 65535}

RomDevices ==
    {[acks |-> AckUpTo(upto), data |-> data] : upto \in 0..4, data \in {<<>>, <<165, 90>>}}

\* The operations that are whole transactions: each leaves the bus idle for
\* the next.
Transfers == {"block_write", "block_read", "rom_read"}

\* The inputs of a transfer: all of `full` on the bus fresh from new(), the
\* few of `few` when it follows another transfer.
Inputs(full, few) == IF op.name = "new" THEN full ELSE few

\* The last `len` entries of the log, as line levels.
LastLevels(wire, len) == [k \in 1..len |-> IF wire[Len(wire) - len + k] = "1" THEN 1 ELSE 0]

InitBus ==
    /\ InitUpdater("bus")
    /\ image = <<>>
    /\ bus = I2CBitbang_new(gpio.scl, gpio.sda)
    /\ op = [name |-> "new"]

\* start(), on the idle bus or after a byte was read.
Start ==
    /\ op.name \in {"new", "read_byte"}
    /\ bus' = start(bus)
    /\ op' = [name |-> "start"]
    /\ UNCHANGED updater

WroteByte(r, byte, st, dev) ==
    /\ bus' = r.bus
    /\ op' = [name |-> "write_byte", byte |-> byte, st |-> st, dev |-> dev,
              ack |-> r.ack, bits |-> LastLevels(SubSeq(r.bus.wire, 1, Len(r.bus.wire) - 1), 8)]

\* write_byte(byte, start); every call in the program is made with the clock
\* low or with a start condition first.
WriteByte ==
    /\ op.name \in {"new", "start"}
    /\ \E byte \in Byte, st \in BOOLEAN, dev \in {0, 1} :
          /\ st \/ ~Released(bus.scl)
          /\ WroteByte(write_byte(Quiet(bus), byte, st, dev), byte, st, dev)
    /\ UNCHANGED updater

GotByte(r, ack) ==
    /\ bus' = r.bus
    /\ op' = [name |-> "read_byte", byte |-> r.byte, ack |-> ack,
              written |-> op.byte, bits |-> op.bits]

\* read_byte(ack), with the data line driven as the byte written before was.
ReadByte ==
    /\ op.name = "write_byte"
    /\ \E ack \in BOOLEAN : GotByte(read_byte(Quiet(bus), ack, op.bits), ack)
    /\ UNCHANGED updater

WroteBlock(r, address, command, bytes, acks) ==
    /\ bus' = r.bus
    /\ op' = [name |-> "block_write", address |-> address, command |-> command,
              bytes |-> bytes, acks |-> acks, count |-> r.count,
              scl |-> bus.scl, sda |-> bus.sda, hasty |-> bus.hasty,
              after |-> op.name]

\* smbus_block_write(address, command, bytes)
BlockWrite ==
    /\ op.name \in {"new"} \cup Transfers
    /\ \E address \in Inputs(Addresses, {RETIMER_ADDRESS}),
          command \in Inputs(Registers, {IECS_CMD}),
          bytes \in Inputs(Payloads, {<<165>>, Image(SMBUS_MAX + 1)}),
          acks \in Inputs(WriteDevices, {AckUpTo(4)}) :
          WroteBlock(smbus_block_write(Quiet(bus), address, command, bytes, acks),
                     address, command, bytes, acks)
    /\ UNCHANGED updater

GotBlock(r, address, command, dev) ==
    /\ bus' = r.bus
    /\ op' = [name |-> "block_read", address |-> address, command |-> command,
              dev |-> dev, bytes |-> r.bytes, after |-> op.name]

\* smbus_block_read(address, command)
BlockRead ==
    /\ op.name \in {"new"} \cup Transfers
    /\ \E address \in Inputs(Addresses, {RETIMER_ADDRESS}),
          command \in Inputs(Registers, {IECS_CMD}),
          dev \in Inputs(ReadDevices, {[acks |-> AckUpTo(3), count |-> 1, data |-> ErrorStatus],
                                       [acks |-> AckUpTo(1), count |-> 0, data |-> <<>>]}) :
          GotBlock(smbus_block_read(Quiet(bus), address, command, dev), address, command, dev)
    /\ UNCHANGED updater

GotRom(r, offset, length, dev) ==
    /\ bus' = r.bus
    /\ op' = [name |-> "rom_read", address |-> ROM_ADDRESS, offset |-> offset,
              length |-> length, dev |-> dev, bytes |-> r.bytes, after |-> op.name]

\* Rom::read(offset, length)
RomRead ==
    /\ op.name \in {"new"} \cup Transfers
    /\ \E offset \in Inputs(RomOffsets, {258}),
          dev \in Inputs(RomDevices, {[acks |-> AckUpTo(4), data |-> <<165, 90>>]}) :
          \E length \in Inputs(0..MaxRomLen, {Len(dev.data)}) :
          GotRom(Rom_read(Quiet(bus), ROM_ADDRESS, offset, length, dev), offset, length, dev)
    /\ UNCHANGED updater

WroteRegister(r, register, data, acks) ==
    /\ bus' = r.bus
    /\ op' = [name |-> "write", register |-> register, data |-> data, acks |-> acks,
              ok |-> r.ok, count |-> r.count]

\* Retimer::write(reg, data)
RetimerWrite ==
    /\ op.name = "new"
    /\ \E register \in Registers, data \in Words, upto \in 0..7 :
          WroteRegister(Retimer_write(bus, RETIMER_ADDRESS, register, data, AckUpTo(upto)),
                        register, data, AckUpTo(upto))
    /\ UNCHANGED updater

\* The k-th byte of the log of a block write: the eight levels of its frame.
WireByte(wire, k) ==
    [at \in 1..8 |-> IF wire[1 + 9 * (k - 1) + at] = "1" THEN 1 ELSE 0]

\* The byte whose bits, most significant first, are `levels`.
ByteOf(levels) ==
    levels[1] * 128 + levels[2] * 64 + levels[3] * 32 + levels[4] * 16
    + levels[5] * 8 + levels[6] * 4 + levels[7] * 2 + levels[8]

\* A device that hands back the four payload bytes of the block write whose
\* log is `wire`.
Echo(wire) ==
    [acks |-> AckUpTo(3), count |-> 4,
     data |-> [k \in 1..4 |-> ByteOf(WireByte(wire, 3 + k))]]

GotRegister(r, register, dev, block) ==
    /\ bus' = r.bus
    /\ op' = [name |-> "read", register |-> register, dev |-> dev,
              ok |-> r.ok, value |-> r.value, block |-> block.bytes,
              after |-> op.name,
              data |-> IF op.name = "write" THEN op.data ELSE <<0, 0>>]

\* Retimer::read(reg): of a device that answers freely, or after a write that
\* went through, of a device that hands the written bytes back.
RetimerRead ==
    /\ op.name \in {"new", "write"}
    /\ \E register \in Registers :
          IF op.name = "new"
          THEN \E dev \in ReadDevices :
                  GotRegister(Retimer_read(bus, RETIMER_ADDRESS, register, dev),
                              register, dev,
                              smbus_block_read(bus, RETIMER_ADDRESS, register, dev))
          ELSE /\ op.ok /\ register = op.register
               /\ GotRegister(Retimer_read(Quiet(bus), RETIMER_ADDRESS, register, Echo(bus.wire)),
                              register, Echo(bus.wire),
                              smbus_block_read(Quiet(bus), RETIMER_ADDRESS, register, Echo(bus.wire)))
    /\ UNCHANGED updater

NextBus ==
    \/ Start \/ WriteByte \/ ReadByte
    \/ BlockWrite \/ BlockRead \/ RomRead
    \/ RetimerWrite \/ RetimerRead

SpecBus == InitBus /\ [][NextBus]_vars

(***************************************************************************)
(* One pad's register shared with another consumer.  A bit update of Gpio  *)
(* is two accesses of the register, the volatile read of get_config and    *)
(* the volatile write of set_config; nothing locks the register between    *)
(* them ("this should probably be locked"), so another consumer of the     *)
(* same register may write it in between.  The register is gpio.scl, and   *)
(*   op    the update in progress: "idle", or "read" with the word read    *)
(*         and the call being made; op.theirs are the bits the other       *)
(*         consumer has set                                                *)
(***************************************************************************)
\* GpioPadMode::Nf1 = 1 << 10, GpioPadMode::Nf3 = 3 << 10
GpioPadMode_Nf1 == {10}

GpioPadMode_Nf3 == {10, 11}

\* Bits of the register that belong to the other consumer.
OtherBits == {30, 31}

\* The bit updates a Gpio offers.
Calls ==
    {[call |-> c, value |-> v, mode |-> {}] :
        c \in {"enable_rx", "enable_tx", "set_tx"}, v \in BOOLEAN}
    \cup {[call |-> "set_pad_mode", value |-> FALSE, mode |-> m] :
            m \in {GpioPadMode_Gpio, GpioPadMode_Nf1, GpioPadMode_Nf3}}

\* The word a call makes of the word it read.
Modified(config, c) ==
    CASE c.call = "enable_rx" -> enable_rx(config, c.value)
      [] c.call = "enable_tx" -> enable_tx(config, c.value)
      [] c.call = "set_tx" -> set_tx(config, c.value)
      [] OTHER -> set_pad_mode(config, c.mode)

\* Everything but the pads, the bus and op.
rest == <<pc, i2c, image, i, j, cmd, tries, ret, result, exit_status, before,
          cmds, chunks, sent, reads, echoes, failed, why, late, log>>

InitRmw ==
    /\ InitUpdater("rmw")
    /\ image = <<>>
    /\ bus = I2CBitbang_new({}, {})
    /\ op = [name |-> "idle", theirs |-> gpio.scl \cap OtherBits]

\* set_mask, set_pad_mode: let mut config = self.get_config()
GetConfig ==
    /\ op.name = "idle"
    /\ \E c \in Calls :
          op' = [name |-> "read", config |-> gpio.scl, call |-> c, theirs |-> op.theirs]
    /\ UNCHANGED <<gpio, bus, rest>>

\* set_mask, set_pad_mode: the word is changed and self.set_config(config)
SetConfig ==
    /\ op.name = "read"
    /\ gpio' = [gpio EXCEPT !.scl = Modified(op.config, op.call)]
    /\ op' = [name |-> "idle", theirs |-> op.theirs]
    /\ UNCHANGED <<bus, rest>>

\* The other consumer sets or clears one of its bits, in one access.
OtherConsumer ==
    /\ \E bit \in OtherBits, value \in BOOLEAN :
          /\ gpio' = [gpio EXCEPT !.scl = set_mask(@, {bit}, value)]
          /\ op' = [op EXCEPT !.theirs = set_mask(@, {bit}, value)]
          /\ gpio'.scl # gpio.scl
    /\ UNCHANGED <<bus, rest>>

NextRmw == GetConfig \/ SetConfig \/ OtherConsumer

SpecRmw == InitRmw /\ [][NextRmw]_vars

(***************************************************************************)
(* Properties of the update (specification Spec).                          *)
(***************************************************************************)
\* ceil(len / 64)
Blocks(len) == (len + 63) \div 64

\* One offset reset, one write-block per chunk, one authenticate, one power cycle.
ExpectedCmds(len) ==
    <<CMD_BOPS>> \o [k \in 1..Blocks(len) |-> CMD_BLKW] \o <<CMD_AUTH, CMD_PCYC>>

\* The update ran to its end, or to a panic, without a pad or the image file
\* missing and without any register access or command failing.
AllSucceeded ==
    pc = "exit" /\ result # "none" /\ ~failed /\ why \notin {"gpio", "file"}

\* C1: in an update where every register access and every command succeeds,
\* the commands written to the command register are exactly one offset reset,
\* one write-block per chunk, one authenticate and one power cycle, in this
\* order, and the run ends in Done (exit status 0).
C1_CommandOrder ==
    AllSucceeded => (exit_status = 0 /\ cmds = ExpectedCmds(Len(image)))

\* A 3-byte image: the offset reset succeeded, and the update panicked on
\* image[i + 3] before it wrote a word.
C1_Witness ==
    /\ AllSucceeded /\ Len(image) = 3 /\ why = "index"
    /\ cmds = <<CMD_BOPS>> /\ exit_status = PANIC_STATUS

\* What does hold of C1: a run that ends in Done has issued exactly these
\* commands.
DoneOrder == exit_status = 0 => cmds = ExpectedCmds(Len(image))

\* A 128-byte image: 1 offset reset, 2 write-block, 1 authenticate, 1 power cycle.
Done128 ==
    /\ exit_status = 0 /\ Len(image) = 128
    /\ cmds = <<CMD_BOPS, CMD_BLKW, CMD_BLKW, CMD_AUTH, CMD_PCYC>>

\* C2: the update is fail-fast: once a register access or a command has
\* failed, no further register access is started and no command is issued,
\* the program is only on its way out, and it ends with a non-zero status; a
\* run that failed in a write-block command has issued no authenticate and no
\* power-cycle command.
C2_FailFast ==
    /\ late = 0
    /\ failed => pc \in {"cmd_ret", "drop", "en_low", "fp_low", "exit"}
    /\ (failed /\ pc = "exit") => exit_status \notin {-1, 0}
    /\ (failed /\ cmds # <<>> /\ cmds[Len(cmds)] = CMD_BLKW) =>
           \A k \in 1..Len(cmds) : cmds[k] \notin {CMD_AUTH, CMD_PCYC}

\* The second write-block command of a 128-byte image timed out.
C2_Witness ==
    /\ pc = "exit" /\ Len(image) = 128 /\ ret.res = "Timeout"
    /\ cmds = <<CMD_BOPS, CMD_BLKW, CMD_BLKW>>
    /\ exit_status = PANIC_STATUS

\* C3: command's result follows from the values read from the command
\* register: while every read returns the opcode it keeps polling, at most
\* 1000 times; the first read that differs ends it, with Success if it is 0
\* and DeviceError carrying the value otherwise (the device's one error
\* status here is ErrorStatus), after exactly one read more than there were
\* echoes; 1000 echoes end it with Timeout after exactly
\* 1000 reads.
C3_CommandResult ==
    /\ pc = "cmd_poll" => (reads = echoes /\ reads <= 1000)
    /\ (pc = "cmd_ret" /\ ret.res = "Success") =>
           (ret.status = <<0, 0>> /\ reads = echoes + 1 /\ reads <= 1000)
    /\ (pc = "cmd_ret" /\ ret.res = "DeviceError") =>
           (/\ ret.status = FromLeBytes(ErrorStatus) /\ ret.status \notin {<<0, 0>>, cmd}
            /\ reads = echoes + 1 /\ reads <= 1000)
    /\ (pc = "cmd_ret" /\ ret.res = "Timeout") => (reads = 1000 /\ echoes = 1000)

\* The register echoed the opcode 999 times and then returned 0.
C3_Witness ==
    pc = "cmd_ret" /\ ret.res = "Success" /\ echoes = 999 /\ reads = 1000

\* C4: an update that succeeds has issued ceil(L / 64) write-block commands
\* for its image of L bytes; every chunk but the last carried 64 bytes and the
\* last one L mod 64 bytes, or 64 if L is a multiple of 64.
C4_Chunking ==
    exit_status = 0 =>
        /\ Len(chunks) = Blocks(Len(image))
        /\ Cardinality({k \in 1..Len(cmds) : cmds[k] = CMD_BLKW}) = Blocks(Len(image))
        /\ \A k \in 1..Len(chunks) :
              chunks[k] = IF k < Len(chunks) \/ Len(image) % 64 = 0 THEN 64
                          ELSE Len(image) % 64

C4_Witness == exit_status = 0 /\ Len(image) = 124 /\ chunks = <<64, 60>>

\* C5: once the bus object's life has ended, both pads hold the words they
\* held immediately before the bus was constructed; and the life of a bus
\* that was constructed has ended when the process ends, whether the update
\* succeeded, returned an error or panicked.
C5_Teardown ==
    /\ (pc = "exit" /\ i2c.life # "none") => i2c.life = "dropped"
    /\ i2c.life = "dropped" => (gpio.scl = before.scl /\ gpio.sda = before.sda)

\* The update panicked on a failed command, with pads the bus had changed.
C5_Witness ==
    /\ pc = "exit" /\ i2c.life = "dropped" /\ result = "panic" /\ why = "command"
    /\ before.scl # I2CBitbang_new(before.scl, before.sda).scl
    /\ before.sda # I2CBitbang_new(before.scl, before.sda).sda


\* C11: the process ends with status 0 when the whole update succeeded and
\* with status 1 on every failure, before the bus exists or in any phase of
\* the update; it never ends with another status.
C11_ExitCode ==
    pc = "exit" =>
        /\ exit_status \in {0, 1}
        /\ exit_status = 0 <=> result = "Ok"

\* The pad of FORCE_POWER could not be resolved: Gpio::new(...).unwrap()
\* panicked and the process ended with the status of a panic.
C11_Witness ==
    pc = "exit" /\ why = "gpio" /\ log = <<>> /\ exit_status = PANIC_STATUS

\* The places of the log that hold an entry `ev` of register `reg`.
Entries(ev, reg) == {k \in 1..Len(log) : log[k].ev = ev /\ log[k].reg = reg}

\* The identification reads made so far, and those of them that failed.
IdReads == Entries("read", 0) \cup Entries("read", 1)

FailedIdReads == {k \in IdReads : ~log[k].ok}

\* The writes of the two data registers made so far.
DataWrites == Entries("write", IECS_DATA) \cup Entries("write", MSG_OUT_RDATA)

\* C13: whatever the identification reads return, a failed read included,
\* the update goes on to the offset reset: a run that made an identification
\* read and found its image has, when it ends, written 0 to the data register
\* and, that write accepted, issued the offset-reset command.
C13_NoGate ==
    (pc = "exit" /\ IdReads # {} /\ why # "file") =>
        /\ Entries("write", IECS_DATA) # {}
        /\ log[CHOOSE k \in Entries("write", IECS_DATA) : TRUE].ok =>
               (cmds # <<>> /\ cmds[1] = CMD_BOPS)

\* C13 as amended: the values read do not matter, but a read that fails ends
\* the update: after a failed identification read no data register is
\* written and no command is issued, and the process ends with status 1;
\* after two reads that succeeded, whatever they returned, a run that found
\* its image goes on to the offset reset.
C13_GateOnFailure ==
    /\ FailedIdReads # {} =>
          /\ DataWrites = {} /\ cmds = <<>>
          /\ Cardinality(IdReads) = Cardinality({k \in IdReads : log[k].ok}) + 1
          /\ pc \in {"drop", "en_low", "fp_low", "exit"}
          /\ pc = "exit" => exit_status = 1
    /\ (pc = "exit" /\ Cardinality(IdReads) = 2 /\ FailedIdReads = {} /\ why # "file") =>
          /\ Entries("write", IECS_DATA) # {}
          /\ log[CHOOSE k \in Entries("write", IECS_DATA) : TRUE].ok =>
                 (cmds # <<>> /\ cmds[1] = CMD_BOPS)

\* The vendor read succeeded and the device read returned five bytes: the
\* run ended with status 1 and nothing written.
C13_Witness ==
    /\ pc = "exit" /\ exit_status = 1 /\ why = "read"
    /\ Cardinality(IdReads) = 2 /\ Cardinality(FailedIdReads) = 1
    /\ \E k \in FailedIdReads : log[k].reg = 1 /\ log[k].data = <<0, 5>>
    /\ DataWrites = {} /\ cmds = <<>>

\* The last entry of the log is a poll read that did not return 4 bytes.
PollReadFailed ==
    log # <<>> /\ log[Len(log)].ev = "poll" /\ log[Len(log)].data # <<0, 4>>

\* C14: once the poll loop of a command has begun, the command ends in one
\* of three ways and in no other: success after a read of 0, device error
\* after a read of a value that is neither the opcode nor 0, or timeout
\* after 1000 reads.
C14_ThreeOutcomes ==
    (pc = "cmd_ret" /\ reads > 0) =>
        /\ ret.res \in {"Success", "DeviceError", "Timeout"}
        /\ ret.res = "Success" => ret.status = <<0, 0>>
        /\ ret.res = "DeviceError" => ret.status \notin {<<0, 0>>, cmd}
        /\ ret.res = "Timeout" => reads = retries

\* C14 as amended: there is a fourth way, and no other: LengthMismatch, as
\* soon as a poll read does not return exactly 4 bytes.
C14_FourOutcomes ==
    /\ pc = "cmd_poll" => ret.res = "none"
    /\ (pc = "cmd_ret" /\ reads > 0) =>
          /\ ret.res \in {"Success", "DeviceError", "Timeout", "LengthMismatch"}
          /\ ret.res = "Success" => ret.status = <<0, 0>>
          /\ ret.res = "DeviceError" => ret.status \notin {<<0, 0>>, cmd}
          /\ ret.res = "Timeout" => (reads = retries /\ echoes = retries)
          /\ ret.res = "LengthMismatch" <=> PollReadFailed
          /\ ret.res = "LengthMismatch" => (reads = echoes + 1 /\ reads <= retries)

\* The register echoed the opcode twice and then answered with 3 bytes.
C14_Witness ==
    /\ pc = "cmd_ret" /\ ret.res = "LengthMismatch" /\ echoes = 2 /\ reads = 3
    /\ log[Len(log)] = Access("poll", IECS_CMD, <<0, 3>>, FALSE)

\* The writes of the staging data register, in the order they were made.
IsStaged(e) == e.ev = "write" /\ e.reg = MSG_OUT_RDATA

Staged == SelectSeq(log, IsStaged)

RECURSIVE SumTo(_, _)
SumTo(seq, upto) == IF upto = 0 THEN 0 ELSE SumTo(seq, upto - 1) + seq[upto]

\* What C16 says of the writes `staged` of the staging data register.
InImageOrder(staged) ==
    /\ \A k \in 1..Len(staged) :
          /\ 4 * k <= Len(image)
          /\ ToLeBytes(staged[k].data) = SubSeq(image, 4 * k - 3, 4 * k)
          /\ staged[k].ok \/ (k = Len(staged) /\ pc \in {"drop", "exit"})
    /\ exit_status = 0 => (4 * Len(staged) = Len(image) /\ SumTo(chunks, Len(chunks)) = Len(image))
    /\ \A k \in 1..Len(chunks) : chunks[k] \in {4 * n : n \in 1..16}
    /\ Len(chunks) = Cardinality({k \in 1..Len(cmds) : cmds[k] = CMD_BLKW})
    /\ SumTo(chunks, Len(chunks)) + sent = 4 * Cardinality({k \in 1..Len(staged) : staged[k].ok})

\* C16: the words written to the staging data register are the consecutive
\* 4-byte groups of the image, least significant byte first, in image order,
\* and in an update that succeeds they make up the whole image; each
\* write-block command follows at least 1 and at most 16 words written since
\* the command before it, and every one of them was accepted.
C16_ImageOrder == InImageOrder(Staged)

\* A 68-byte image went through: 17 words in image order, in chunks of 16
\* words and 1 word.
C16_Witness ==
    /\ exit_status = 0 /\ Len(image) = 68 /\ Len(Staged) = 17 /\ chunks = <<64, 4>>
    /\ ToLeBytes(Staged[17].data) = <<ImageByte(64), ImageByte(65), ImageByte(66), ImageByte(67)>>


\* The places of the log where `ev` happened.
Events(ev) == {k \in 1..Len(log) : log[k].ev = ev}

\* Every event `later` of the log has an event `earlier` before it.
Preceded(later, earlier) ==
    \A k \in Events(later) : \E h \in Events(earlier) : h < k

\* C19: FORCE_POWER is driven high before ROM_I2C_EN is, the bus is
\* constructed after both, and whichever way the access to the bus ends
\* (success, error or abort), the process ends only after ROM_I2C_EN was
\* driven low and then FORCE_POWER was driven low.
C19_Bracket ==
    /\ Preceded("rom_i2c_en high", "force_power high")
    /\ Preceded("new", "rom_i2c_en high")
    /\ (pc = "exit" /\ Events("new") # {}) =>
          /\ Len(log) >= 2
          /\ log[Len(log) - 1] = Pin("rom_i2c_en low")
          /\ log[Len(log)] = Pin("force_power low")

\* The update aborted on a register write the device refused: the bus was
\* dropped and the process ended with both pins still driven high.
C19_Witness ==
    /\ pc = "exit" /\ result = "panic" /\ why = "write"
    /\ log[Len(log)] = Pin("drop")
    /\ Events("rom_i2c_en low") = {} /\ Events("force_power low") = {}
    /\ gpio.rom_i2c_en = set_tx(gpio.rom_i2c_en, TRUE)
    /\ gpio.force_power = set_tx(gpio.force_power, TRUE)


\* A command writes the command register as its first step and never again:
\* cmds grows by one entry, on the step that leaves "cmd_write", and polling
\* never leads back to the write.
OneWrite ==
    /\ Len(cmds') # Len(cmds) => (pc = "cmd_write" /\ Len(cmds') = Len(cmds) + 1)
    /\ pc = "cmd_poll" => pc' \in {"cmd_poll", "cmd_ret"}

\* The step wrote a word of the image and the device took it.
WordWritten ==
    /\ Len(log') = Len(log) + 1
    /\ log'[Len(log')].ev = "write" /\ log'[Len(log')].reg = MSG_OUT_RDATA
    /\ log'[Len(log')].ok

\* The cursor moves with every word written and with nothing else, forward
\* by the four bytes of the word, and not beyond the end of the image.
CursorAdvances ==
    /\ WordWritten => i' = i + 4
    /\ i' # i => (WordWritten /\ i' = i + 4 /\ i' <= Len(image))

\* C20: whatever the image and whatever the device answers, the process
\* reaches its end; a command in progress has read the command register at
\* most 1000 times and written it once, and the cursor into the image grows
\* by one word with every word written, up to the length of the image.
C20_Terminates ==
    /\ <>(pc = "exit")
    /\ [](reads <= 1000 /\ i <= Len(image))
    /\ [][OneWrite /\ CursorAdvances]_vars

\* The last command of an update of more than one chunk timed out after all
\* of the image was written, and the process ended.
C20_Witness ==
    /\ pc = "exit" /\ why = "command" /\ cmd = CMD_PCYC /\ ret.res = "Timeout"
    /\ i = Len(image) /\ Len(image) > CHUNK

(***************************************************************************)
(* Properties of the bus (specification SpecBus).                          *)
(***************************************************************************)
\* The eight bits of a byte as the analyser logs them, most significant first.
MSBFirst(byte) == [k \in 1..8 |-> IF (byte \div (2 ^ (8 - k))) % 2 = 1 THEN "1" ELSE "0"]

\* A byte the master sends: its eight bits, then the ack slot with the data
\* line released.
Frame(byte) == MSBFirst(byte) \o <<"1">>

\* A byte the master receives: the data line released for eight bits, then
\* pulled low to acknowledge or left released not to.
ReadFrame(ack) == <<"1", "1", "1", "1", "1", "1", "1", "1", IF ack THEN "0" ELSE "1">>

RECURSIVE Frames(_, _)
Frames(bytes, upto) ==
    IF upto = 0 THEN <<>> ELSE Frames(bytes, upto - 1) \o Frame(bytes[upto])

\* How many of the first `total` bytes the device acknowledges without a gap.
Accepted(acks, total) ==
    Cardinality({k \in 1..total : \A m \in 1..k : Nth(acks, m) = 0})

\* How many of `total` bytes go out: all accepted ones and the first refused.
OnWire(acks, total) ==
    IF Accepted(acks, total) = total THEN total ELSE Accepted(acks, total) + 1

BlockWriteBytes == <<(op.address * 2) % 256, op.command, Len(op.bytes)>> \o op.bytes

\* C6: for a payload of at most 32 bytes smbus_block_write sends address<<1,
\* command, the payload's length and the payload bytes in this order, each
\* only if every byte before it was acknowledged, then one stop condition as
\* the last thing on the bus, and returns the number of payload bytes
\* acknowledged.
C6_BlockWrite ==
    (op.name = "block_write" /\ Len(op.bytes) <= 32) =>
        /\ bus.wire = <<"S">>
                      \o Frames(BlockWriteBytes, OnWire(op.acks, Len(BlockWriteBytes)))
                      \o <<"0", "P">>
        /\ op.count = IF Accepted(op.acks, Len(BlockWriteBytes)) >= 3
                      THEN Accepted(op.acks, Len(BlockWriteBytes)) - 3
                      ELSE 0

\* The device refused the second of two payload bytes.
C6_Witness ==
    /\ op.name = "block_write" /\ Len(op.bytes) = 2 /\ op.count = 1
    /\ bus.wire[Len(bus.wire)] = "P"

\* What goes out before a block read's data: the address, the command, and
\* with a repeated start the address with the read bit, as far as the device
\* acknowledges.
ReadHead(out) ==
    <<"S">> \o Frame((op.address * 2) % 256)
    \o (IF out >= 2 THEN Frame(op.command) ELSE <<>>)
    \o (IF out >= 3 THEN <<"1", "S">> \o Frame(((op.address * 2) % 256) + 1) ELSE <<>>)

RECURSIVE ReadFrames(_, _)
ReadFrames(count, upto) ==
    IF upto = 0 THEN <<>>
    ELSE ReadFrames(count, upto - 1) \o ReadFrame(upto # count)

\* C7: when the three leading bytes are acknowledged smbus_block_read reads a
\* length byte N, which it acknowledges, and returns exactly the N bytes the
\* device sends, acknowledging each but the last; otherwise it reads nothing
\* and returns the empty sequence; it ends with a stop condition either way.
C7_BlockRead ==
    op.name = "block_read" =>
        IF Accepted(op.dev.acks, 3) = 3
        THEN /\ Len(op.bytes) = op.dev.count
             /\ \A k \in 1..Len(op.bytes) : op.bytes[k] = NthByte(op.dev.data, k)
             /\ bus.wire = ReadHead(3) \o ReadFrame(TRUE)
                           \o ReadFrames(op.dev.count, op.dev.count) \o <<"0", "P">>
        ELSE /\ op.bytes = <<>>
             /\ bus.wire = ReadHead(OnWire(op.dev.acks, 3)) \o <<"0", "P">>

C7_Witness ==
    /\ op.name = "block_read" /\ Accepted(op.dev.acks, 3) = 3
    /\ op.dev.count = 5 /\ op.bytes = <<165, 90, 255, 0, 17>>

\* C8: smbus_block_write with a payload of more than 32 bytes returns 0 and
\* does nothing on the bus: nothing is logged and both pads keep their words.
C8_BlockWriteLimit ==
    (op.name = "block_write" /\ Len(op.bytes) > 32) =>
        /\ op.count = 0
        /\ bus.wire = <<>>
        /\ bus.scl = op.scl /\ bus.sda = op.sda /\ bus.hasty = op.hasty

\* 33 bytes, for a device that would acknowledge them all.
C8_Witness ==
    /\ op.name = "block_write" /\ Len(op.bytes) = 33 /\ Len(op.acks) >= 35
    /\ op.count = 0

\* C9: write_byte puts the eight bits of its byte on the data line most
\* significant bit first, and read_byte, sampling these eight levels in order,
\* returns the byte.
C9_Loopback ==
    /\ op.name = "write_byte" =>
           \A k \in 1..8 : op.bits[k] = (op.byte \div (2 ^ (8 - k))) % 2
    /\ op.name = "read_byte" => op.byte = op.written

\* 0xA5 went out as 1,0,1,0,0,1,0,1 and came back as 0xA5.
C9_Witness ==
    /\ op.name = "read_byte" /\ op.written = 165
    /\ op.bits = <<1, 0, 1, 0, 0, 1, 0, 1>> /\ op.byte = 165

\* The k-th of the four bytes of a word, least significant first.
LeByte(data, k) == IF k <= 2 THEN (data[2] \div (256 ^ (k - 1))) % 256
                   ELSE (data[1] \div (256 ^ (k - 3))) % 256

\* C10: read succeeds exactly when the block read returned 4 bytes, and then
\* returns b0 + b1 * 2^8 + b2 * 2^16 + b3 * 2^24; write sends the length 4
\* and the four bytes of its value least significant first and succeeds
\* exactly when all four were acknowledged; a device that hands back the
\* bytes it accepted from write(register, v) makes read(register) return v.
C10_RegisterWidth ==
    /\ op.name = "read" =>
          /\ op.ok <=> (Len(op.block) = 4)
          /\ op.ok => /\ op.value[2] = op.block[1] + op.block[2] * 256
                      /\ op.value[1] = op.block[3] + op.block[4] * 256
    /\ op.name = "write" =>
          /\ op.ok <=> (Accepted(op.acks, 7) = 7)
          /\ op.ok <=> (op.count = 4)
          /\ OnWire(op.acks, 7) >= 3 => ByteOf(WireByte(bus.wire, 3)) = 4
          /\ \A k \in 1..4 :
                3 + k <= OnWire(op.acks, 7) =>
                    ByteOf(WireByte(bus.wire, 3 + k)) = LeByte(op.data, k)
    /\ (op.name = "read" /\ op.after = "write") => (op.ok /\ op.value = op.data)

\* 0x80000001 was written and read back.
C10_Witness ==
    /\ op.name = "read" /\ op.after = "write" /\ op.ok
    /\ op.data = <<32768, 1>> /\ op.value = <<32768, 1>>


BusBits == PAD_MODE \cup RX_DIS \cup TX_DIS \cup TX

\* A pad's word as the bus keeps it, given the word captured from the pad.
OpenDrain(word, captured) ==
    /\ word \cap PAD_MODE = GpioPadMode_Gpio
    /\ ~get_mask(word, RX_DIS)
    /\ ~get_mask(word, TX)
    /\ word \ BusBits = captured \ BusBits

\* C15: from the end of I2CBitbang::new on, after any operation of the bus,
\* each line has pad mode GPIO, its input enabled and its output level low,
\* and its word differs from the captured one in no bit but pad mode,
\* RX-disable, TX-disable and output level; the operations change only the
\* TX-disable bit; right after construction both lines are released.
C15_OpenDrain ==
    /\ OpenDrain(bus.scl, bus.scl_config)
    /\ OpenDrain(bus.sda, bus.sda_config)
    /\ bus.scl \ TX_DIS = I2CBitbang_new(bus.scl_config, bus.sda_config).scl \ TX_DIS
    /\ bus.sda \ TX_DIS = I2CBitbang_new(bus.scl_config, bus.sda_config).sda \ TX_DIS
    /\ op.name = "new" => (get_mask(bus.scl, TX_DIS) /\ get_mask(bus.sda, TX_DIS))

\* A byte ending in 0 was read and acknowledged, on pads that came with a
\* native function and a high output level: both lines are pulled low now.
C15_Witness ==
    /\ op.name = "read_byte" /\ op.ack
    /\ ~get_mask(bus.scl, TX_DIS) /\ ~get_mask(bus.sda, TX_DIS)
    /\ bus.scl_config \cap PAD_MODE # {} /\ get_mask(bus.scl_config, TX)
    /\ bus.sda_config \cap PAD_MODE # {} /\ get_mask(bus.sda_config, RX_DIS)


\* The places of a log where the analyser saw `what`.
Seeing(wire, what) == {k \in 1..Len(wire) : wire[k] = what}

\* Where the start conditions of the last transfer belong in its log: at its
\* head, and for a read after the bytes sent before the repeated start and
\* the rising clock edge of that start.
StartsDue ==
    CASE op.name = "block_write" -> {1}
      [] op.name = "block_read" ->
            IF Accepted(op.dev.acks, 2) = 2 THEN {1, 21} ELSE {1}
      [] OTHER ->
            IF Accepted(op.dev.acks, 3) = 3 THEN {1, 30} ELSE {1}

\* C18: in any sequence of block writes, block reads and raw reads, whatever
\* the device acknowledges or sends, the master changes its drive of the data
\* line while the clock is released only in start(), pulling it low once, and
\* in stop(), releasing it once: the analyser sees the start conditions where
\* the transfer makes them and one stop condition as its last event, none
\* inside a byte; and a transfer that made a start leaves both lines released.
C18_NoSpurious ==
    op.name \in Transfers =>
        /\ Released(bus.scl) /\ Released(bus.sda)
        /\ bus.wire = <<>> => (op.name = "block_write" /\ Len(op.bytes) > SMBUS_MAX)
        /\ bus.wire # <<>> =>
              /\ Seeing(bus.wire, "S") = StartsDue
              /\ Seeing(bus.wire, "P") = {Len(bus.wire)}
              /\ bus.wire[Len(bus.wire) - 1] = "0"
              /\ \A k \in Seeing(bus.wire, "S") : k > 1 => bus.wire[k - 1] = "1"

\* A raw read of two bytes after another transfer: a start, a repeated start
\* after the three bytes sent, and the stop after the second byte read.
C18_Witness ==
    /\ op.name = "rom_read" /\ op.after = "block_read" /\ op.bytes = <<165, 90>>
    /\ Seeing(bus.wire, "S") = {1, 30}
    /\ Seeing(bus.wire, "P") = {Len(bus.wire)} /\ Len(bus.wire) = 59


(***************************************************************************)
(* Properties of the shared register (specification SpecRmw).              *)
(***************************************************************************)
\* C17: a bit update reads the word, changes its own bits and writes the
\* word back as one step as far as another consumer of the register can
\* tell: what the other consumer wrote to its bits is never lost, however
\* its writes fall between the read and the write of an update.
C17_Atomic == gpio.scl \cap OtherBits = op.theirs

\* The other consumer set bit 31 after enable_tx had read the word, and the
\* write of enable_tx put the bit back to 0.
C17_Witness ==
    /\ op.name = "idle" /\ op.theirs = {30, 31}
    /\ gpio.scl \cap OtherBits = {30}


====
